---- MODULE Spec2Model ----
(***************************************************************************)
(* A model of unity_unpacker_lib: UnityAssetFile (one record per staging   *)
(* subdirectory), its placement into the target tree, and UnityPackage,    *)
(* the catalog that unpacks an archive into a tmp directory and moves      *)
(* every entry to the target directory.                                    *)
(*                                                                         *)
(* Paths are strings, as in a PathBuf; the filesystem maps resolved paths  *)
(* (sequences of names from the root) to directories and files.            *)
(***************************************************************************)
EXTENDS Naturals, Sequences, FiniteSets, TLC

VARIABLES
    archive,         \* the content of the package file at self.path
    target_path,     \* UnityPackage.target_path : Option<String>
    temp_directory,  \* UnityPackage.temp_directory : Option<String>
    fs,              \* the filesystem
    files,           \* UnityPackage.files : HashMap<String, UnityAssetFile>
    pc,              \* "idle": no call is running; "loop": inside the for loop
    delete_tmp,      \* the argument of the running (or last) unpack_package
    iter,            \* the entries read_dir has still to yield
    result,          \* what the last finished call returned
    cur,             \* the record the last from / copy_asset worked on
    prior            \* result and argument of the unpack_package before the last

vars == <<archive, target_path, temp_directory, fs, files, pc, delete_tmp,
          iter, result, cur, prior>>

\* The number of top-level entries an archive may hold.
MaxEntries == 2

-----------------------------------------------------------------------------
(* Option<T> *)

None == [some |-> FALSE]
Some(x) == [some |-> TRUE, v |-> x]

-----------------------------------------------------------------------------
(* std::path on Unix. A PathBuf is held as its components, which is what   *)
(* its equality, push, parent and file_name work on: the non-empty pieces  *)
(* between separators, "." pieces dropped, and whether it starts at the    *)
(* root. The texts of the model do not end in a separator.                 *)

\* The pieces of s between separators, from position i on, the piece that
\* is being read having started at position start.
RECURSIVE SplitFrom(_, _, _)
SplitFrom(s, start, i) ==
    IF i > Len(s) THEN <<SubSeq(s, start, Len(s))>>
    ELSE IF SubSeq(s, i, i) = "/"
    THEN <<SubSeq(s, start, i - 1)>> \o SplitFrom(s, i + 1, i + 1)
    ELSE SplitFrom(s, start, i + 1)

Components(s) == SelectSeq(SplitFrom(s, 1, 1), LAMBDA x : x # "" /\ x # ".")

IsAbsolute(s) == s # "" /\ SubSeq(s, 1, 1) = "/"

\* PathBuf::from(text)
PathFrom(s) == [abs |-> IsAbsolute(s), segs |-> Components(s)]

Front(q) == SubSeq(q, 1, Len(q) - 1)

\* PathBuf::push: an absolute argument replaces the whole path.
Push(base, p) ==
    IF p.abs THEN p ELSE [abs |-> base.abs, segs |-> base.segs \o p.segs]

\* Path::file_name: None when the path ends in ".." or has no component.
FileName(p) ==
    IF p.segs = <<>> \/ p.segs[Len(p.segs)] = ".." THEN None
    ELSE Some(p.segs[Len(p.segs)])

\* Path::parent: the path without its last component; None for a root or "".
Parent(p) ==
    IF p.segs = <<>> THEN None ELSE Some([abs |-> p.abs, segs |-> Front(p.segs)])

\* Path::file_stem: the file name up to its last ".", the whole name when the
\* only "." is the first character or there is none.
RECURSIVE LastDot(_, _)
LastDot(s, i) ==
    IF i = 0 THEN 0
    ELSE IF SubSeq(s, i, i) = "." THEN i
    ELSE LastDot(s, i - 1)

FileStem(p) ==
    LET f == FileName(p)
    IN  IF ~f.some THEN None
        ELSE LET d == LastDot(f.v, Len(f.v))
             IN  IF d <= 1 THEN f ELSE Some(SubSeq(f.v, 1, d - 1))

\* str::contains
Contains(s, pat) ==
    \E i \in 1..(Len(s) + 1) :
        /\ i + Len(pat) - 1 <= Len(s)
        /\ pat # "" => SubSeq(s, i, i) = SubSeq(pat, 1, 1)
        /\ SubSeq(s, i, i + Len(pat) - 1) = pat

-----------------------------------------------------------------------------
(* The filesystem: fs maps a resolved path (the names from the root) to a  *)
(* node. The root <<>> is a directory in every state. There are no         *)
(* symbolic links, and the only errors are those the tree itself causes.   *)

Dir == [kind |-> "dir"]
File(text) == [kind |-> "file", text |-> text]

\* std::env::current_dir()
CurrentDir == PathFrom("/w")

IsDirAt(f, p) == p \in DOMAIN f /\ f[p].kind = "dir"
IsFileAt(f, p) == p \in DOMAIN f /\ f[p].kind = "file"

\* Path resolution by the system: every component is looked up in the
\* directory reached so far, ".." leads to that directory's parent.
RECURSIVE Walk(_, _, _)
Walk(f, at, q) ==
    IF q = <<>> THEN [err |-> "Ok", p |-> at]
    ELSE IF at \notin DOMAIN f THEN [err |-> "NotFound", p |-> at]
    ELSE IF f[at].kind # "dir" THEN [err |-> "NotADirectory", p |-> at]
    ELSE IF q[1] = ".." THEN Walk(f, Front(at), Tail(q))
    ELSE Walk(f, at \o <<q[1]>>, Tail(q))

Resolve(f, s) ==
    IF ~s.abs /\ s.segs = <<>> THEN [err |-> "NotFound", p |-> <<>>]
    ELSE Walk(f, IF s.abs THEN <<>> ELSE CurrentDir.segs, s.segs)

\* Path::exists
Exists(f, s) == LET r == Resolve(f, s) IN r.err = "Ok" /\ r.p \in DOMAIN f

\* Path::is_dir
IsDir(f, s) == LET r == Resolve(f, s) IN r.err = "Ok" /\ IsDirAt(f, r.p)

\* Path::is_file
IsFile(f, s) == LET r == Resolve(f, s) IN r.err = "Ok" /\ IsFileAt(f, r.p)

Put(f, p, node) == [x \in DOMAIN f \cup {p} |-> IF x = p THEN node ELSE f[x]]

Drop(f, gone) == [x \in DOMAIN f \ gone |-> f[x]]

\* mkdir(2)
Mkdir(f, s) ==
    LET r == Resolve(f, s)
    IN  IF r.err # "Ok" THEN [err |-> r.err, fs |-> f]
        ELSE IF r.p \in DOMAIN f THEN [err |-> "AlreadyExists", fs |-> f]
        ELSE [err |-> "Ok", fs |-> Put(f, r.p, Dir)]

\* std::fs::create_dir_all: mkdir, and when a component is missing, the
\* parent first; an error is forgiven when the directory is there.
RECURSIVE CreateDirAll(_, _)
CreateDirAll(f, s) ==
    IF ~s.abs /\ s.segs = <<>> THEN [err |-> "Ok", fs |-> f]
    ELSE LET m == Mkdir(f, s)
         IN  IF m.err = "Ok" THEN m
             ELSE IF m.err # "NotFound"
             THEN (IF IsDir(f, s) THEN [err |-> "Ok", fs |-> f] ELSE m)
             ELSE LET par == Parent(s)
                  IN  IF ~par.some THEN [err |-> "Other", fs |-> f]
                      ELSE LET up == CreateDirAll(f, par.v)
                           IN  IF up.err # "Ok" THEN up
                               ELSE LET m2 == Mkdir(up.fs, s)
                                    IN  IF m2.err = "Ok" THEN m2
                                        ELSE IF IsDir(up.fs, s)
                                        THEN [err |-> "Ok", fs |-> up.fs]
                                        ELSE [err |-> m2.err, fs |-> up.fs]

\* std::fs::read_to_string; the file is left as it is.
ReadToString(f, s) ==
    LET r == Resolve(f, s)
    IN  IF r.err = "Ok" /\ IsFileAt(f, r.p)
        THEN [err |-> "Ok", text |-> f[r.p].text, fs |-> f]
        ELSE [err |-> "NotFound", text |-> "", fs |-> f]

\* Rename as a copy: the source stays where it is.
RenameCopying(f, from, to) ==
    LET a == Resolve(f, from)
        b == Resolve(f, to)
    IN  IF a.err # "Ok" THEN [err |-> a.err, fs |-> f]
        ELSE IF ~IsFileAt(f, a.p) THEN [err |-> "NotFound", fs |-> f]
        ELSE IF b.err # "Ok" THEN [err |-> b.err, fs |-> f]
        ELSE IF IsDirAt(f, b.p) THEN [err |-> "IsADirectory", fs |-> f]
        ELSE IF ~IsDirAt(f, Front(b.p)) THEN [err |-> "NotFound", fs |-> f]
        ELSE [err |-> "Ok", fs |-> Put(f, b.p, f[a.p])]

\* std::fs::rename of a file: the source name goes away, the target name
\* holds the file, replacing a file that was there; a directory in the way,
\* a missing parent or a missing source is an error.
Rename(f, from, to) ==
    LET a == Resolve(f, from)
        b == Resolve(f, to)
    IN  IF a.err # "Ok" THEN [err |-> a.err, fs |-> f]
        ELSE IF ~IsFileAt(f, a.p) THEN [err |-> "NotFound", fs |-> f]
        ELSE IF b.err # "Ok" THEN [err |-> b.err, fs |-> f]
        ELSE IF IsDirAt(f, b.p) THEN [err |-> "IsADirectory", fs |-> f]
        ELSE IF ~IsDirAt(f, Front(b.p)) THEN [err |-> "NotFound", fs |-> f]
        ELSE IF a.p = b.p THEN [err |-> "Ok", fs |-> f]
        ELSE [err |-> "Ok", fs |-> Put(Drop(f, {a.p}), b.p, f[a.p])]

IsPrefix(p, q) == Len(p) <= Len(q) /\ SubSeq(q, 1, Len(p)) = p

\* std::fs::read_dir: the names of the immediate children.
ReadDir(f, s) ==
    LET r == Resolve(f, s)
    IN  IF r.err = "Ok" /\ IsDirAt(f, r.p)
        THEN [err |-> "Ok",
              names |-> {x[Len(x)] : x \in {y \in DOMAIN f :
                                              Len(y) = Len(r.p) + 1 /\ IsPrefix(r.p, y)}}]
        ELSE [err |-> "NotFound", names |-> {}]

\* std::fs::remove_dir_all: the directory and everything below it.
RemoveDirAll(f, s) ==
    LET r == Resolve(f, s)
    IN  IF r.err = "Ok" /\ IsDirAt(f, r.p) /\ r.p # <<>>
        THEN [err |-> "Ok", fs |-> Drop(f, {x \in DOMAIN f : IsPrefix(r.p, x)})]
        ELSE [err |-> "NotFound", fs |-> f]

-----------------------------------------------------------------------------
(* UnityAssetFile *)

UnityAssetFile(guid, asset, target, meta, is_folder) ==
    [guid |-> guid, asset |-> asset, target |-> target, meta |-> meta,
     is_folder |-> is_folder]

\* get_relative_path: the whole text of the pathname member, as a PathBuf.
GetRelativePath(f, file) ==
    LET r == ReadToString(f, file)
    IN  IF r.err # "Ok" THEN [err |-> "CorruptPackage", v |-> "", fs |-> r.fs]
        ELSE [err |-> "Ok", v |-> r.text, fs |-> r.fs]

\* get_is_folder
GetIsFolder(f, file) ==
    LET r == ReadToString(f, file)
    IN  IF r.err # "Ok" THEN [err |-> "CorruptPackage", v |-> FALSE, fs |-> r.fs]
        ELSE [err |-> "Ok", v |-> Contains(r.text, "folderAsset: yes"), fs |-> r.fs]

\* The members of a staging subdirectory, lines 64, 67 and 70.
AssetMember == PathFrom("asset")
PathnameMember == PathFrom("pathname")
MetaMember == PathFrom("asset.meta")

\* from that reads asset.meta before pathname.
FromMetaFirst(f, path) ==
    LET h == FileName(path)
    IN  IF ~h.some THEN [err |-> "PathError", rec |-> None, fs |-> f]
        ELSE LET asset == Push(path, AssetMember)
                 pathname == Push(path, PathnameMember)
                 meta == Push(path, MetaMember)
                 is_folder == GetIsFolder(f, meta)
             IN  IF is_folder.err # "Ok"
                 THEN [err |-> "CouldReadMetaFile", rec |-> None, fs |-> is_folder.fs]
                 ELSE LET target == GetRelativePath(is_folder.fs, pathname)
                      IN  IF target.err # "Ok"
                          THEN [err |-> "CorruptPackage", rec |-> None, fs |-> target.fs]
                          ELSE [err |-> "Ok",
                                rec |-> Some(UnityAssetFile(h.v, asset, target.v,
                                                            meta, is_folder.v)),
                                fs |-> target.fs]

\* UnityAssetFile::from(path)
From(f, path) ==
    LET h == FileName(path)
    IN  IF ~h.some THEN [err |-> "PathError", rec |-> None, fs |-> f]
        ELSE LET asset == Push(path, AssetMember)
                 pathname == Push(path, PathnameMember)
                 meta == Push(path, MetaMember)
                 target == GetRelativePath(f, pathname)
             IN  IF target.err # "Ok"
                 THEN [err |-> "CorruptPackage", rec |-> None, fs |-> target.fs]
                 ELSE LET is_folder == GetIsFolder(target.fs, meta)
                      IN  IF is_folder.err # "Ok"
                          THEN [err |-> "CouldReadMetaFile", rec |-> None,
                                fs |-> is_folder.fs]
                          ELSE [err |-> "Ok",
                                rec |-> Some(UnityAssetFile(h.v, asset, target.v,
                                                            meta, is_folder.v)),
                                fs |-> is_folder.fs]

\* copy_asset, lines 135-137: where the asset goes.
AbsoluteTargetPath(rec, root) == Push(root, PathFrom(rec.target))

\* The meta file named by replacing the extension of the asset's name.
MetaTargetReplacingExtension(asset) ==
    LET f == FileStem(asset)
        par == Parent(asset)
    IN  IF ~f.some \/ ~par.some THEN None
        ELSE Some(Push(par.v, PathFrom(f.v \o ".unitymeta")))

\* copy_asset, lines 171-212: where the meta file goes.
MetaTargetFileName(asset) ==
    LET f == FileName(asset)
        par == Parent(asset)
    IN  IF ~f.some \/ ~par.some THEN None
        ELSE Some(Push(par.v, PathFrom(f.v \o ".unitymeta")))

\* The two renames in the other order: the meta file first, then the asset.
MoveFilesMetaFirst(f, rec, absolute_target_path) ==
    LET meta_target_file_name == MetaTargetFileName(absolute_target_path)
    IN  IF ~meta_target_file_name.some
        THEN [err |-> "CorruptPackage", fs |-> f]
        ELSE LET meta == Rename(f, rec.meta, meta_target_file_name.v)
             IN  IF meta.err # "Ok" THEN [err |-> "CorruptPackage", fs |-> meta.fs]
                 ELSE LET asset == Rename(meta.fs, rec.asset, absolute_target_path)
                      IN  IF asset.err # "Ok"
                          THEN [err |-> "CorruptPackage", fs |-> asset.fs]
                          ELSE [err |-> "Ok", fs |-> asset.fs]

\* The two renames of copy_asset, once the parent directory is there.
MoveFiles(f, rec, absolute_target_path) ==
    LET asset == Rename(f, rec.asset, absolute_target_path)
    IN  IF asset.err # "Ok" THEN [err |-> "CorruptPackage", fs |-> asset.fs]
        ELSE LET meta_target_file_name == MetaTargetFileName(absolute_target_path)
             IN  IF ~meta_target_file_name.some
                 THEN [err |-> "CorruptPackage", fs |-> asset.fs]
                 ELSE LET meta == Rename(asset.fs, rec.meta, meta_target_file_name.v)
                      IN  IF meta.err # "Ok"
                          THEN [err |-> "CorruptPackage", fs |-> meta.fs]
                          ELSE [err |-> "Ok", fs |-> meta.fs]

\* copy_asset without the early return for folders.
CopyAssetOfFolders(f, rec, root) ==
    LET absolute_target_path == AbsoluteTargetPath(rec, root)
        parent == Parent(absolute_target_path)
    IN  IF ~parent.some
        THEN [err |-> "TargetDirectoryCouldNotBeCreated", fs |-> f]
        ELSE IF ~Exists(f, parent.v)
        THEN LET made == CreateDirAll(f, parent.v)
             IN  IF made.err # "Ok"
                 THEN [err |-> "TargetDirectoryCouldNotBeCreated", fs |-> made.fs]
                 ELSE MoveFiles(made.fs, rec, absolute_target_path)
        ELSE MoveFiles(f, rec, absolute_target_path)

\* copy_asset that creates the parent directory without asking whether it
\* is there, with a creation that fails on a directory that exists.
CopyAssetCreatingAlways(f, rec, root) ==
    IF rec.is_folder THEN [err |-> "Ok", fs |-> f]
    ELSE LET absolute_target_path == AbsoluteTargetPath(rec, root)
             parent == Parent(absolute_target_path)
         IN  IF ~parent.some
             THEN [err |-> "TargetDirectoryCouldNotBeCreated", fs |-> f]
             ELSE IF Exists(f, parent.v)
             THEN [err |-> "TargetDirectoryCouldNotBeCreated", fs |-> f]
             ELSE LET made == CreateDirAll(f, parent.v)
                  IN  IF made.err # "Ok"
                      THEN [err |-> "TargetDirectoryCouldNotBeCreated", fs |-> made.fs]
                      ELSE MoveFiles(made.fs, rec, absolute_target_path)

\* UnityAssetFile::copy_asset(target_path)
CopyAsset(f, rec, root) ==
    IF rec.is_folder THEN [err |-> "Ok", fs |-> f]
    ELSE LET absolute_target_path == AbsoluteTargetPath(rec, root)
             parent == Parent(absolute_target_path)
         IN  IF ~parent.some
             THEN [err |-> "TargetDirectoryCouldNotBeCreated", fs |-> f]
             ELSE IF ~Exists(f, parent.v)
             THEN LET made == CreateDirAll(f, parent.v)
                  IN  IF made.err # "Ok"
                      THEN [err |-> "TargetDirectoryCouldNotBeCreated", fs |-> made.fs]
                      ELSE MoveFiles(made.fs, rec, absolute_target_path)
             ELSE MoveFiles(f, rec, absolute_target_path)

-----------------------------------------------------------------------------
(* The package file and what Archive::unpack writes for it. *)

GuidPool == <<"1af5", "2b06", "3c17", "4d28">>

Guids == {GuidPool[i] : i \in 1..MaxEntries}

\* The bytes of the asset member and the text of the asset.meta member of g.
Payload(g) == "asset of " \o g
MetaText(g, folder) == "guid: " \o g \o (IF folder THEN " folderAsset: yes" ELSE " folderAsset: no")

\* The members an entry of the archive may have: its pathname text, whether
\* its meta text marks a folder, and which members the archive holds for it.
Entry(pathname, folder, meta, asset) ==
    [pathname |-> pathname, folder |-> folder, meta |-> meta, asset |-> asset]

ShapeList ==
    << Entry(Some("Assets/a.jpg"), FALSE, TRUE, TRUE),
       Entry(Some("Assets/d.txt"), FALSE, TRUE, TRUE),
       Entry(Some("Assets"), TRUE, TRUE, TRUE),
       Entry(Some("Assets/a.jpg/b/c.txt"), FALSE, TRUE, TRUE),
       Entry(None, FALSE, TRUE, TRUE),
       Entry(Some("Assets/m.txt"), FALSE, FALSE, TRUE),
       Entry(Some("/abs/e.txt"), FALSE, TRUE, TRUE),
       Entry(Some("../e.txt"), FALSE, TRUE, TRUE) >>

\* Guids are opaque names and a directory is listed in no particular order,
\* so of the archives that differ only in which guid names which entry one
\* is taken: the first guids of the pool, their shapes in ascending order.
Sorted(ix) == \A i \in 1..(Len(ix) - 1) : ix[i] <= ix[i + 1]

EntriesOf(ix) ==
    [g \in {GuidPool[i] : i \in 1..Len(ix)} |->
        ShapeList[ix[CHOOSE i \in 1..Len(ix) : GuidPool[i] = g]]]

TarArchives ==
    {[kind |-> "tar", entries |-> EntriesOf(ix)] :
        ix \in UNION {{jx \in [1..k -> 1..Len(ShapeList)] : Sorted(jx)} :
                        k \in 0..MaxEntries}}

\* The package file: not there, not a gzip-compressed tar stream, or one.
Archives == {[kind |-> "missing"], [kind |-> "garbage"]} \cup TarArchives

\* self.path
PackagePath == PathFrom("/w/pkg.unitypackage")

\* Archive::unpack(dst): every member is written below dst, over what is there.
Members(base, g, sh) ==
    {base \o <<g>>}
    \cup (IF sh.asset THEN {base \o <<g, "asset">>} ELSE {})
    \cup (IF sh.meta THEN {base \o <<g, "asset.meta">>} ELSE {})
    \cup (IF sh.pathname.some THEN {base \o <<g, "pathname">>} ELSE {})

MemberNode(base, x, ent) ==
    LET g == x[Len(base) + 1]
        sh == ent[g]
    IN  IF Len(x) = Len(base) + 1 THEN Dir
        ELSE IF x[Len(x)] = "asset" THEN File(Payload(g))
        ELSE IF x[Len(x)] = "asset.meta" THEN File(MetaText(g, sh.folder))
        ELSE File(sh.pathname.v)

\* An unpack that writes nothing.
UnpackNothing(f, dst, ent) == f

Unpack(f, dst, ent) ==
    LET base == Resolve(f, dst).p
        new == UNION {Members(base, g, ent[g]) : g \in DOMAIN ent}
    IN  [x \in DOMAIN f \cup new |-> IF x \in new THEN MemberNode(base, x, ent) ELSE f[x]]

-----------------------------------------------------------------------------
(* UnityPackage *)

\* get_tmp_dir
DefaultTmpDir == Push(CurrentDir, PathFrom("tmp"))

GetTmpDir(temp) == IF temp.some THEN PathFrom(temp.v) ELSE DefaultTmpDir

\* get_package_file_name
GetPackageFileName == FileStem(PackagePath)

\* get_target_dir
DefaultTargetDir == Push(CurrentDir, PathFrom(GetPackageFileName.v))

\* get_target_dir with the file name of the package, extension kept, as the
\* name of the default directory.
GetTargetDirOfFileName(target) ==
    IF target.some THEN PathFrom(target.v)
    ELSE Push(CurrentDir, PathFrom(FileName(PackagePath).v))

GetTargetDir(target) == IF target.some THEN PathFrom(target.v) ELSE DefaultTargetDir

\* get_file
GetFile(guid) == IF guid \in DOMAIN files THEN Some(files[guid]) ELSE None

\* An insert under the relative target path of the record.
InsertByTarget(map, k, v) ==
    [x \in DOMAIN map \cup {v.target} |-> IF x = v.target THEN v ELSE map[x]]

\* HashMap::insert
Insert(map, k, v) == [x \in DOMAIN map \cup {k} |-> IF x = k THEN v ELSE map[x]]

NoRecord == [op |-> "none", path |-> PathFrom(""), err |-> "Ok", rec |-> None]

Init ==
    /\ archive \in Archives
    /\ target_path \in {None, Some("/w/out")}
    /\ temp_directory \in {None, Some("/w/stage")}
    /\ fs = (<<>> :> Dir) @@ (CurrentDir.segs :> Dir)
    /\ files = <<>>
    /\ pc = "idle"
    /\ delete_tmp = FALSE
    /\ iter = {}
    /\ result = "None"
    /\ cur = NoRecord
    /\ prior = None

\* A call of unpack_package ends with r.
Return(r) == pc' = "idle" /\ result' = r

\* unpack_package up to the first iteration of the loop in
\* copy_files_to_target: read the package, create the tmp directory, unpack
\* the archive into it and list it.
Begin(flag) ==
    /\ pc = "idle"
    /\ delete_tmp' = flag
    /\ prior' = IF result = "None" THEN None
                ELSE Some([result |-> result, delete_tmp |-> delete_tmp])
    /\ cur' = NoRecord
    /\ UNCHANGED <<archive, target_path, temp_directory, files>>
    /\ IF archive.kind = "missing"
       THEN Return("PackageNotFound") /\ UNCHANGED <<fs, iter>>
       ELSE LET tmp_path == GetTmpDir(temp_directory)
                made == CreateDirAll(fs, tmp_path)
            IN  IF made.err # "Ok"
                THEN /\ Return("TmpDirectoryCouldNotBeCreated")
                     /\ fs' = made.fs
                     /\ UNCHANGED iter
                ELSE IF archive.kind = "garbage"
                THEN /\ Return("CorruptPackage")
                     /\ fs' = made.fs
                     /\ UNCHANGED iter
                ELSE LET unpacked == Unpack(made.fs, tmp_path, archive.entries)
                         listing == ReadDir(unpacked, GetTmpDir(temp_directory))
                     IN  /\ fs' = unpacked
                         /\ IF listing.err # "Ok"
                            THEN Return("TmpDirectoryCouldNotBeCreated") /\ UNCHANGED iter
                            ELSE /\ iter' = listing.names
                                 /\ pc' = "loop"
                                 /\ UNCHANGED result

\* An iteration that skips an entry from cannot read and goes on.
StepSkipping(name) ==
    /\ pc = "loop"
    /\ name \in iter
    /\ iter' = iter \ {name}
    /\ UNCHANGED <<archive, target_path, temp_directory, delete_tmp, prior>>
    /\ LET p == Push(GetTmpDir(temp_directory), PathFrom(name))
           target == GetTargetDir(target_path)
           asset_file == From(fs, p)
       IN  IF asset_file.err # "Ok"
           THEN /\ fs' = asset_file.fs
                /\ cur' = [op |-> "from", path |-> p, err |-> asset_file.err, rec |-> None]
                /\ UNCHANGED <<files, pc, result>>
           ELSE LET a == asset_file.rec.v
                    copied == CopyAsset(asset_file.fs, a, target)
                IN  /\ fs' = copied.fs
                    /\ cur' = [op |-> "copy_asset", path |-> target, err |-> copied.err,
                               rec |-> Some(a)]
                    /\ IF copied.err # "Ok"
                       THEN Return(copied.err) /\ UNCHANGED files
                       ELSE /\ files' = Insert(files, a.guid, a)
                            /\ UNCHANGED <<pc, result>>

\* An iteration that inserts the record before it knows whether copy_asset
\* succeeded.
StepInsertingFirst(name) ==
    /\ pc = "loop"
    /\ name \in iter
    /\ iter' = iter \ {name}
    /\ UNCHANGED <<archive, target_path, temp_directory, delete_tmp, prior>>
    /\ LET p == Push(GetTmpDir(temp_directory), PathFrom(name))
           target == GetTargetDir(target_path)
           asset_file == From(fs, p)
       IN  IF asset_file.err # "Ok"
           THEN /\ Return(asset_file.err)
                /\ fs' = asset_file.fs
                /\ cur' = [op |-> "from", path |-> p, err |-> asset_file.err, rec |-> None]
                /\ UNCHANGED files
           ELSE LET a == asset_file.rec.v
                    copied == CopyAsset(asset_file.fs, a, target)
                IN  /\ fs' = copied.fs
                    /\ cur' = [op |-> "copy_asset", path |-> target, err |-> copied.err,
                               rec |-> Some(a)]
                    /\ files' = Insert(files, a.guid, a)
                    /\ IF copied.err # "Ok"
                       THEN Return(copied.err)
                       ELSE UNCHANGED <<pc, result>>

\* One iteration of the loop of copy_files_to_target, on any entry that
\* read_dir has not yet yielded (it yields them in no particular order).
Step(name) ==
    /\ pc = "loop"
    /\ name \in iter
    /\ iter' = iter \ {name}
    /\ UNCHANGED <<archive, target_path, temp_directory, delete_tmp, prior>>
    /\ LET p == Push(GetTmpDir(temp_directory), PathFrom(name))
           target == GetTargetDir(target_path)
           asset_file == From(fs, p)
       IN  IF asset_file.err # "Ok"
           THEN /\ Return(asset_file.err)
                /\ fs' = asset_file.fs
                /\ cur' = [op |-> "from", path |-> p, err |-> asset_file.err, rec |-> None]
                /\ UNCHANGED files
           ELSE LET a == asset_file.rec.v
                    copied == CopyAsset(asset_file.fs, a, target)
                IN  /\ fs' = copied.fs
                    /\ cur' = [op |-> "copy_asset", path |-> target, err |-> copied.err,
                               rec |-> Some(a)]
                    /\ IF copied.err # "Ok"
                       THEN Return(copied.err) /\ UNCHANGED files
                       ELSE /\ files' = Insert(files, a.guid, a)
                            /\ UNCHANGED <<pc, result>>

\* The end of unpack_package with the flag read the wrong way round.
FinishInverted ==
    /\ pc = "loop"
    /\ iter = {}
    /\ UNCHANGED <<archive, target_path, temp_directory, files, delete_tmp, iter,
                   cur, prior>>
    /\ IF ~delete_tmp
       THEN LET removed == RemoveDirAll(fs, GetTmpDir(temp_directory))
            IN  /\ fs' = removed.fs
                /\ Return(IF removed.err = "Ok" THEN "Ok" ELSE "CouldNotDeleteTmp")
       ELSE Return("Ok") /\ UNCHANGED fs

\* unpack_package after copy_files_to_target returned Ok.
Finish ==
    /\ pc = "loop"
    /\ iter = {}
    /\ UNCHANGED <<archive, target_path, temp_directory, files, delete_tmp, iter,
                   cur, prior>>
    /\ IF delete_tmp
       THEN LET removed == RemoveDirAll(fs, GetTmpDir(temp_directory))
            IN  /\ fs' = removed.fs
                /\ Return(IF removed.err = "Ok" THEN "Ok" ELSE "CouldNotDeleteTmp")
       ELSE Return("Ok") /\ UNCHANGED fs

Next ==
    \/ \E flag \in BOOLEAN : Begin(flag)
    \/ \E name \in iter : Step(name)
    \/ Finish

Spec == Init /\ [][Next]_vars

-----------------------------------------------------------------------------
(* UnityAssetFile used on its own: the tmp directory holds an unpacked     *)
(* archive, and the caller builds records with from and places them with   *)
(* copy_asset below a root of its choice.                                  *)

\* The paths from is called with: the staging subdirectories, a directory
\* that is not there, the root, and a path that ends in "..".
FromInputs ==
    {Push(DefaultTmpDir, PathFrom(g)) : g \in Guids \cup {"nope"}}
    \cup {PathFrom("/"), Push(DefaultTmpDir, PathFrom(".."))}

\* The roots copy_asset is called with: an absolute and a relative one.
Roots == {PathFrom("/w/out"), PathFrom("alt")}

InitAsset ==
    /\ archive \in TarArchives
    /\ target_path = None
    /\ temp_directory = None
    /\ fs = Unpack(CreateDirAll((<<>> :> Dir) @@ (CurrentDir.segs :> Dir),
                                DefaultTmpDir).fs,
                   DefaultTmpDir, archive.entries)
    /\ files = <<>>
    /\ pc = "idle"
    /\ delete_tmp = FALSE
    /\ iter = {}
    /\ result = "None"
    /\ cur = NoRecord
    /\ prior = None

CallFrom(path) ==
    /\ pc = "idle"
    /\ LET r == From(fs, path)
       IN  /\ fs' = r.fs
           /\ cur' = [op |-> "from", path |-> path, err |-> r.err, rec |-> r.rec]
    /\ UNCHANGED <<archive, target_path, temp_directory, files, pc, delete_tmp,
                   iter, result, prior>>

CallCopyAsset(root) ==
    /\ pc = "idle"
    /\ cur.rec.some
    /\ LET c == CopyAsset(fs, cur.rec.v, root)
       IN  /\ fs' = c.fs
           /\ cur' = [op |-> "copy_asset", path |-> root, err |-> c.err,
                      rec |-> cur.rec]
    /\ UNCHANGED <<archive, target_path, temp_directory, files, pc, delete_tmp,
                   iter, result, prior>>

NextAsset ==
    \/ \E path \in FromInputs : CallFrom(path)
    \/ \E root \in Roots : CallCopyAsset(root)

SpecAsset == InitAsset /\ [][NextAsset]_vars

-----------------------------------------------------------------------------
(* What the properties below speak of. *)

TmpDir == GetTmpDir(temp_directory)
TargetDir == GetTargetDir(target_path)

\* The identifiers a caller may look up: every guid, and one that names nothing.
Identifiers == Guids \cup {"nope"}

\* A call of unpack_package has returned r.
Returned(r) == pc = "idle" /\ result = r

\* The last call of unpack_package failed inside the loop of copy_files_to_target.
FailedInLoop == pc = "idle" /\ result \notin {"None", "Ok"} /\ cur.op # "none"

\* The staging subdirectory of guid g and its pathname member.
Staged(g) == Push(TmpDir, PathFrom(g))
PathnameOf(g) == Push(Staged(g), PathnameMember)

\* The node at path s, which resolves and is there.
NodeAt(s) == fs[Resolve(fs, s).p]

\* What is at the path s in the tree f, if anything.
NodeOrNone(f, s) ==
    LET r == Resolve(f, s)
    IN  IF r.err = "Ok" /\ r.p \in DOMAIN f THEN Some(f[r.p]) ELSE None

\* The record is placed below root: its asset and its meta file are files at
\* the places copy_asset computes for them.
PlacedAt(rec, root) ==
    /\ IsFile(fs, AbsoluteTargetPath(rec, root))
    /\ IsFile(fs, MetaTargetFileName(AbsoluteTargetPath(rec, root)).v)

\* The staging subdirectory of g is as Archive::unpack wrote it.
Untouched(g) ==
    LET base == Resolve(fs, TmpDir).p
    IN  \A x \in Members(base, g, archive.entries[g]) :
            x \in DOMAIN fs /\ fs[x] = MemberNode(base, x, archive.entries)

-----------------------------------------------------------------------------
(* C1: if a staging subdirectory has no readable pathname member,          *)
(* unpack_package fails with the corrupt-package or invalid-path kind and  *)
(* the catalog holds no record of that run: get_file is None for every     *)
(* identifier, also for the entries processed before the corrupt one.      *)
(* Stated for the first call on a catalog, whose records are all of that   *)
(* run.                                                                    *)
C1_NoPartialCatalog ==
    (/\ pc = "idle"
     /\ prior = None
     /\ cur.op = "from"
     /\ ~IsFile(fs, Push(cur.path, PathnameMember)))
    => /\ result \in {"CorruptPackage", "PathError"}
       /\ \A g \in Identifiers : GetFile(g) = None

(* C2, as the specification states it: a call of unpack_package after a    *)
(* call that returned Ok and deleted the tmp directory fails because the   *)
(* tmp directory cannot be read, and adds no record. Stated for an archive *)
(* that has entries.                                                       *)
C2_RerunFails ==
    (/\ pc = "idle"
     /\ prior # None /\ prior.v.result = "Ok" /\ prior.v.delete_tmp
     /\ DOMAIN archive.entries # {})
    => result = "TmpDirectoryCouldNotBeCreated"

(* C2, amended: a call of unpack_package after a call that returned Ok and *)
(* deleted the tmp directory creates the tmp directory again and unpacks   *)
(* the archive into it, so the listing succeeds and every entry is in the  *)
(* tmp directory while the loop runs; the call returns Ok as the call      *)
(* before it did, and the catalog has the keys it had: the guids of the    *)
(* archive.                                                                *)
C2_RerunUnpacksAgain ==
    (prior # None /\ prior.v.result = "Ok" /\ prior.v.delete_tmp)
    => /\ pc = "loop" => /\ IsDir(fs, TmpDir)
                         /\ \A g \in iter : Untouched(g)
                         /\ DOMAIN files = DOMAIN archive.entries
       /\ pc = "idle" => /\ result = "Ok"
                         /\ DOMAIN files = DOMAIN archive.entries

\* A second call has run to its end after a first that deleted the tmp
\* directory of an archive with a file in it.
C2_Witness ==
    /\ pc = "idle" /\ prior # None /\ prior.v.result = "Ok" /\ prior.v.delete_tmp
    /\ result = "Ok"
    /\ \E g \in DOMAIN files : ~files[g].is_folder

-----------------------------------------------------------------------------
(* Properties of copy_asset and from, checked under SpecAsset. *)

\* copy_asset has just returned Ok for a record that is no folder.
JustPlaced == cur.op = "copy_asset" /\ cur.err = "Ok" /\ ~cur.rec.v.is_folder

C4_MetaSuffix ==
    JustPlaced
    => LET rec == cur.rec.v
           at == Resolve(fs, Push(cur.path, PathFrom(rec.target))).p
           name == at[Len(at)]
           dot == LastDot(name, Len(name))
           stem == IF dot <= 1 THEN name ELSE SubSeq(name, 1, dot - 1)
       IN  /\ IsFileAt(fs, Front(at) \o <<name \o ".unitymeta">>)
           /\ fs[Front(at) \o <<name \o ".unitymeta">>].text = MetaText(rec.guid, FALSE)
           /\ stem # name => Front(at) \o <<stem \o ".unitymeta">> \notin DOMAIN fs

\* The meta file of a.jpg is a.jpg.unitymeta, beside a.jpg.
C4_Witness ==
    /\ JustPlaced
    /\ cur.rec.v.target = "Assets/a.jpg"
    /\ IsFileAt(fs, <<"w", "out", "Assets", "a.jpg">>)
    /\ IsFileAt(fs, <<"w", "out", "Assets", "a.jpg.unitymeta">>)

(* C5: copy_asset of a record with is_folder = true returns Ok and leaves  *)
(* the filesystem as it is, whatever the root: the asset and asset.meta    *)
(* members stay in staging, no directory and no file is created.           *)
C5_FolderNoOp ==
    [][\A root \in Roots :
          (CallCopyAsset(root) /\ cur.rec.v.is_folder)
          => (cur'.err = "Ok" /\ fs' = fs)]_vars

\* copy_asset has returned for a folder record whose members are in staging.
C5_Witness ==
    /\ cur.op = "copy_asset"
    /\ cur.rec.v.is_folder
    /\ IsFile(fs, cur.rec.v.asset)
    /\ IsFile(fs, cur.rec.v.meta)

\* What from(path) is to return in the present state, read off the tree.
ExpectedFrom(path) ==
    IF path \in {PathFrom("/"), Push(DefaultTmpDir, PathFrom(".."))} THEN "PathError"
    ELSE IF ~IsFile(fs, Push(path, PathnameMember)) THEN "CorruptPackage"
    ELSE IF ~IsFile(fs, Push(path, MetaMember)) THEN "CouldReadMetaFile"
    ELSE "Ok"

(* C10: from returns the invalid-path kind when the path has no final      *)
(* segment, the corrupt-package kind when pathname cannot be read,         *)
(* whatever the state of asset.meta, the meta-file kind when pathname can  *)
(* be read and asset.meta cannot, and otherwise a record of the guid, the  *)
(* pathname text and the staging paths, with is_folder true exactly when   *)
(* the meta text of the entry says "folderAsset: yes"; the filesystem is   *)
(* unchanged in every case.                                                *)
C10_FromKinds ==
    [][\A path \in FromInputs :
          CallFrom(path)
          => /\ fs' = fs
             /\ cur'.err = ExpectedFrom(path)
             /\ cur'.rec.some <=> cur'.err = "Ok"
             /\ cur'.err = "Ok"
                => LET g == path.segs[Len(path.segs)]
                   IN  /\ cur'.rec.v.guid = g
                       /\ cur'.rec.v.target = archive.entries[g].pathname.v
                       /\ cur'.rec.v.is_folder = archive.entries[g].folder
                       /\ cur'.rec.v.asset = Push(path, AssetMember)
                       /\ cur'.rec.v.meta = Push(path, MetaMember)]_vars

\* from has failed on a directory that has neither pathname nor asset.meta,
\* with the kind of the missing pathname.
C10_Witness ==
    /\ cur.op = "from"
    /\ cur.err = "CorruptPackage"
    /\ ~IsFile(fs, Push(cur.path, PathnameMember))
    /\ ~IsFile(fs, Push(cur.path, MetaMember))

-----------------------------------------------------------------------------
(* Properties of unpack_package, checked under Spec. *)

(* C6: after unpack_package returned Ok the keys of the catalog are the    *)
(* names of the children of the tmp directory that the call listed, the    *)
(* guids of the archive: get_file of each, folders included, is a record   *)
(* with that guid and with the text of its pathname member as its relative *)
(* target path, and get_file of any other identifier is None.              *)
C6_CatalogKeys ==
    Returned("Ok")
    => /\ DOMAIN files = DOMAIN archive.entries
       /\ ~delete_tmp => ReadDir(fs, TmpDir).names = DOMAIN files
       /\ \A g \in DOMAIN archive.entries :
            /\ GetFile(g).some
            /\ GetFile(g).v.guid = g
            /\ GetFile(g).v.target = archive.entries[g].pathname.v
            /\ ~delete_tmp => ReadToString(fs, PathnameOf(g)).text = GetFile(g).v.target
       /\ \A g \in Identifiers \ DOMAIN archive.entries : GetFile(g) = None

\* A call has returned Ok with a folder and a file in the catalog.
C6_Witness ==
    /\ Returned("Ok")
    /\ \E g, h \in DOMAIN files : files[g].is_folder /\ ~files[h].is_folder
    /\ GetFile("nope") = None

(* C7: when unpack_package(true) returns Ok the tmp directory is gone and  *)
(* every file the catalog's records were placed as is there; when          *)
(* unpack_package(false) returns Ok the tmp directory is there and so are  *)
(* the placed files.                                                       *)
C7_Cleanup ==
    Returned("Ok")
    => /\ \A g \in DOMAIN files : ~files[g].is_folder => PlacedAt(files[g], TargetDir)
       /\ delete_tmp => ~Exists(fs, TmpDir)
       /\ ~delete_tmp => IsDir(fs, TmpDir) /\ \A g \in DOMAIN files : IsDir(fs, Staged(g))

\* unpack_package(true) has returned Ok after unpack_package(false) had, and
\* a file has been placed.
C7_Witness ==
    /\ Returned("Ok") /\ delete_tmp
    /\ prior # None /\ prior.v.result = "Ok" /\ ~prior.v.delete_tmp
    /\ \E g \in DOMAIN files : ~files[g].is_folder /\ PlacedAt(files[g], TargetDir)
    /\ ~Exists(fs, TmpDir)

(* C8: everything unpack_package places is below the target directory:     *)
(* whatever the pathname text, the asset and its .unitymeta file are moved *)
(* to the target directory followed by the components of the relative      *)
(* target path.                                                            *)
C8_BelowTargetDir ==
    JustPlaced
    => LET rec == cur.rec.v
           root == Resolve(fs, TargetDir).p
           at == Resolve(fs, AbsoluteTargetPath(rec, TargetDir)).p
       IN  /\ IsPrefix(root, at)
           /\ at = root \o Components(rec.target)
           /\ IsFileAt(fs, at)

(* C9: when from or copy_asset fails for an entry, unpack_package returns  *)
(* that error at once; no entry that read_dir has still to yield is read   *)
(* or moved, and the asset and meta file of every entry placed before stay *)
(* where they were placed.                                                 *)
C9_FailFast ==
    (cur.op # "none" /\ cur.err # "Ok")
    => LET failed == IF cur.op = "from" THEN cur.path.segs[Len(cur.path.segs)]
                     ELSE cur.rec.v.guid
       IN  /\ pc = "idle"
           /\ result = cur.err
           /\ \A g \in iter : Untouched(g) /\ failed # g
           /\ \A g \in DOMAIN archive.entries \ (iter \cup {failed}) :
                /\ g \in DOMAIN files
                /\ ~files[g].is_folder => PlacedAt(files[g], TargetDir)

\* The call has failed on the second entry, the first being placed.
C9_Witness ==
    /\ FailedInLoop
    /\ iter = {}
    /\ \E g \in DOMAIN files : ~files[g].is_folder /\ PlacedAt(files[g], TargetDir)

-----------------------------------------------------------------------------
(* Two records of the same destination parent directory. *)

\* The record from builds for the staging subdirectory of g, if it builds one.
RecordOf(g) == From(fs, Staged(g)).rec

\* copy_asset(root) of a, then of b, on the tree f.
PlaceBoth(f, a, b, root) ==
    LET x == CopyAsset(f, a, root)
        y == CopyAsset(x.fs, b, root)
    IN  [first |-> x.err, second |-> y.err, fs |-> y.fs]

\* The directory copy_asset(root) creates for the record, lines 138-160.
DestinationParent(rec, root) == Parent(AbsoluteTargetPath(rec, root))

\* The two names copy_asset(root) moves the files of the record to.
Names(rec, root) ==
    {AbsoluteTargetPath(rec, root), MetaTargetFileName(AbsoluteTargetPath(rec, root)).v}

\* a and b are records of files that go to the same directory below root, and
\* each of them can be placed in the tree as it is.
ShareParent(a, b, root) ==
    /\ ~a.is_folder /\ ~b.is_folder
    /\ DestinationParent(a, root).some
    /\ DestinationParent(a, root) = DestinationParent(b, root)
    /\ CopyAsset(fs, a, root).err = "Ok"
    /\ CopyAsset(fs, b, root).err = "Ok"

\* The tree f without the tmp directory.
DestinationTree(f) ==
    LET tmp == Resolve(f, TmpDir).p
    IN  [x \in {y \in DOMAIN f : ~IsPrefix(tmp, y)} |-> f[x]]

\* The pairs of entries that read_dir has still to yield and from reads,
\* each pair once.
StagedPairs ==
    {pair \in {<<GuidPool[i], GuidPool[j]>> : i, j \in 1..Len(GuidPool)} :
        /\ \E i, j \in 1..Len(GuidPool) :
             i < j /\ pair = <<GuidPool[i], GuidPool[j]>>
        /\ pair[1] \in iter /\ pair[2] \in iter
        /\ RecordOf(pair[1]).some /\ RecordOf(pair[2]).some}

(* C11, as the specification states it: any two records of files whose     *)
(* targets have the same destination parent directory, be it there before  *)
(* or not, are placed with success in either order, and the destination    *)
(* tree is the same in either order.                                       *)
C11_AnyOrderSameTree ==
    pc = "loop"
    => \A pair \in StagedPairs :
         \A a \in {RecordOf(pair[1]).v}, b \in {RecordOf(pair[2]).v} :
            ShareParent(a, b, TargetDir)
            => \A ab \in {PlaceBoth(fs, a, b, TargetDir)},
                  ba \in {PlaceBoth(fs, b, a, TargetDir)} :
                  /\ ab.first = "Ok" /\ ab.second = "Ok"
                  /\ ba.first = "Ok" /\ ba.second = "Ok"
                  /\ DestinationTree(ab.fs) = DestinationTree(ba.fs)

(* C11, amended: any two records of files whose targets have the same      *)
(* destination parent directory, be it there before or not, are placed     *)
(* with success in either order; the names in the destination tree are the *)
(* same in either order, and so is the whole tree when no name the one     *)
(* placement writes is a name the other writes. When both write a name     *)
(* (the relative target paths are equal), the file under it is that of the *)
(* record placed last.                                                     *)
C11_AnyOrderSucceeds ==
    pc = "loop"
    => \A pair \in StagedPairs :
         \A a \in {RecordOf(pair[1]).v}, b \in {RecordOf(pair[2]).v} :
            ShareParent(a, b, TargetDir)
            => \A ab \in {PlaceBoth(fs, a, b, TargetDir)},
                  ba \in {PlaceBoth(fs, b, a, TargetDir)} :
                  /\ ab.first = "Ok" /\ ab.second = "Ok"
                  /\ ba.first = "Ok" /\ ba.second = "Ok"
                  /\ DOMAIN DestinationTree(ab.fs) = DOMAIN DestinationTree(ba.fs)
                  /\ Names(a, TargetDir) \cap Names(b, TargetDir) = {}
                     => ab.fs = ba.fs
                  /\ a.target = b.target
                     => /\ NodeOrNone(ab.fs, AbsoluteTargetPath(b, TargetDir))
                           = Some(File(Payload(b.guid)))
                        /\ NodeOrNone(ba.fs, AbsoluteTargetPath(a, TargetDir))
                           = Some(File(Payload(a.guid)))

\* A second call is about to place two files with different names in a
\* directory that the first call created when it placed them.
C11_Witness ==
    /\ pc = "loop"
    /\ prior # None /\ prior.v.result = "Ok"
    /\ \E pair \in StagedPairs :
         \E a \in {RecordOf(pair[1]).v}, b \in {RecordOf(pair[2]).v} :
            /\ ShareParent(a, b, TargetDir)
            /\ a.target # b.target
            /\ IsDir(fs, DestinationParent(a, TargetDir).v)
            /\ PlacedAt(a, TargetDir) /\ PlacedAt(b, TargetDir)

-----------------------------------------------------------------------------
(* The directories of a UnityPackage. *)

\* Texts a caller may give as an override: absolute ones and a relative one.
OverrideTexts == {"/w/out", "/w/stage", "rel/dir"}

\* The path a text of OverrideTexts stands for.
PathOfText(s) ==
    CASE s = "/w/out" -> [abs |-> TRUE, segs |-> <<"w", "out">>]
      [] s = "/w/stage" -> [abs |-> TRUE, segs |-> <<"w", "stage">>]
      [] s = "rel/dir" -> [abs |-> FALSE, segs |-> <<"rel", "dir">>]

\* get_tmp_dir and get_target_dir on every override and on none.
ResolutionOfTexts ==
    /\ \A s \in OverrideTexts :
         /\ GetTmpDir(Some(s)) = PathOfText(s)
         /\ GetTargetDir(Some(s)) = PathOfText(s)
    /\ GetTmpDir(None) = [abs |-> TRUE, segs |-> <<"w", "tmp">>]
    /\ GetTargetDir(None) = [abs |-> TRUE, segs |-> <<"w", "pkg">>]

\* Where the tmp and the target directory of this UnityPackage are to be.
ExpectedTmp == IF temp_directory.some THEN <<"w", "stage">> ELSE <<"w", "tmp">>
ExpectedTarget == IF target_path.some THEN <<"w", "out">> ELSE <<"w", "pkg">>

\* The directories in the current directory.
DirectoriesHere ==
    {x \in DOMAIN fs : Len(x) = Len(CurrentDir.segs) + 1
                       /\ IsPrefix(CurrentDir.segs, x) /\ fs[x].kind = "dir"}

(* C12: get_tmp_dir is the tmp override as given when there is one and     *)
(* <current directory>/tmp otherwise; get_target_dir is the target         *)
(* override as given when there is one and <current directory>/<file stem  *)
(* of the package path> otherwise; neither depends on the other setting.   *)
(* unpack_package works in these directories and creates no other one in   *)
(* the current directory: the archive is unpacked into the one, and a file *)
(* with a relative target path is placed in the other.                     *)
C12_DirectoryResolution ==
    /\ ResolutionOfTexts
    /\ TmpDir = [abs |-> TRUE, segs |-> ExpectedTmp]
    /\ TargetDir = [abs |-> TRUE, segs |-> ExpectedTarget]
    /\ pc = "loop" => \A g \in DOMAIN archive.entries : IsDirAt(fs, ExpectedTmp \o <<g>>)
    /\ DirectoriesHere \subseteq {ExpectedTmp, ExpectedTarget}
    /\ (JustPlaced /\ cur.rec.v.target \in {"Assets/a.jpg", "Assets/d.txt"})
       => IsFileAt(fs, ExpectedTarget \o Components(cur.rec.v.target))

\* With the tmp directory overridden and the target directory not, a call
\* has unpacked into the override and placed a file in the default.
C12_Witness ==
    /\ Returned("Ok") /\ ~delete_tmp
    /\ temp_directory = Some("/w/stage") /\ target_path = None
    /\ IsDirAt(fs, <<"w", "stage">>)
    /\ <<"w", "tmp">> \notin DOMAIN fs
    /\ IsFileAt(fs, <<"w", "pkg", "Assets", "a.jpg">>)

-----------------------------------------------------------------------------
(* The catalog and the placements. *)

\* The entry the running (or last) call failed on, if it failed in the loop.
FailedEntry ==
    IF cur.op = "none" \/ cur.err = "Ok" THEN {}
    ELSE IF cur.op = "from" THEN {cur.path.segs[Len(cur.path.segs)]}
    ELSE {cur.rec.v.guid}

\* The keys of the records the running (or last) call has inserted: the
\* entries read_dir has yielded, but for the one the call failed on.
InsertedThisCall == DOMAIN files \ (iter \cup FailedEntry)

\* The records of this call that name where files[g] goes as their target.
SameTarget(g) == {h \in InsertedThisCall : files[h].target = files[g].target}

\* The catalog changes only by the insert of a record that copy_asset has
\* just returned Ok for, and a failing iteration leaves the catalog as it is.
InsertAfterPlacement ==
    /\ files' # files
       => /\ cur'.op = "copy_asset" /\ cur'.err = "Ok"
          /\ files' = Insert(files, cur'.rec.v.guid, cur'.rec.v)
    /\ (pc = "loop" /\ pc' = "idle" /\ result' # "Ok") => files' = files

(* C13, as the specification states it: in every state during and after    *)
(* unpack_package, up to the removal of the tmp directory, every record of *)
(* a file in the catalog has its payload at the target directory joined    *)
(* with its relative target path and no longer in the tmp directory; a     *)
(* record is inserted only after copy_asset returned Ok for it.            *)
C13_RecordsPlaced ==
    /\ [](~(Returned("Ok") /\ delete_tmp)
          => \A g \in DOMAIN files :
               ~files[g].is_folder
               => /\ IsFile(fs, AbsoluteTargetPath(files[g], TargetDir))
                  /\ ~Exists(fs, files[g].asset))
    /\ [][InsertAfterPlacement]_vars

(* C13, amended: a record is inserted only after copy_asset returned Ok    *)
(* for it, and a failing iteration inserts nothing. Every record of a file *)
(* that the running (or last) call has inserted has a file and its         *)
(* .unitymeta file at the target directory joined with its relative target *)
(* path, and its payload is no longer in the tmp directory; the file holds *)
(* the payload of the record, or that of another record of this call with  *)
(* the same relative target path. The records kept from an earlier call    *)
(* have their files at the target too, while their payloads are in the tmp *)
(* directory again until the running call reaches them.                    *)
C13_InsertedRecordsPlaced ==
    /\ [](\A g \in InsertedThisCall :
            ~files[g].is_folder
            => /\ PlacedAt(files[g], TargetDir)
               /\ ~Exists(fs, files[g].asset)
               /\ ~Exists(fs, files[g].meta)
               /\ NodeAt(AbsoluteTargetPath(files[g], TargetDir)).text
                  \in {Payload(h) : h \in SameTarget(g)})
    /\ [](\A g \in DOMAIN files :
            ~files[g].is_folder => PlacedAt(files[g], TargetDir))
    /\ [](\A g \in DOMAIN files \cap iter :
            ~files[g].is_folder => IsFile(fs, files[g].asset))
    /\ [][InsertAfterPlacement]_vars

\* Inside the loop, one file is placed and its record inserted, and another
\* entry is still to come.
C13_Witness ==
    /\ pc = "loop"
    /\ iter # {}
    /\ \E g \in InsertedThisCall :
         /\ ~files[g].is_folder
         /\ PlacedAt(files[g], TargetDir)
         /\ ~Exists(fs, files[g].asset)

-----------------------------------------------------------------------------
(* The steps of copy_asset. *)

\* The files of the tree f, directories left out.
FilesOf(f) == [x \in {y \in DOMAIN f : f[y].kind = "file"} |-> f[x]]

(* C14: copy_asset creates the parent directory, then moves the payload,   *)
(* then moves the meta file, and stops at the step that fails. When it     *)
(* returns the target-directory kind, the payload and the meta file are in *)
(* the tmp directory as they were before the call and nothing is at the    *)
(* place of the asset or of its meta file below the root. When the payload *)
(* is not moved, the meta file is where it was before the call and no file *)
(* of the tree has changed. When the meta file is moved, the payload has   *)
(* been moved before it: it is the file at the root joined with the        *)
(* relative target path, in a directory, and the call returns Ok.          *)
C14_StepsInOrder ==
    [][\A root \in Roots :
          (CallCopyAsset(root) /\ ~cur.rec.v.is_folder)
          => LET rec == cur.rec.v
                 to == AbsoluteTargetPath(rec, root)
                 meta_to == MetaTargetFileName(to).v
                 payload_moved == IsFile(fs, rec.asset) /\ ~Exists(fs', rec.asset)
                 meta_moved == IsFile(fs, rec.meta) /\ ~Exists(fs', rec.meta)
             IN  /\ cur'.err \in {"Ok", "TargetDirectoryCouldNotBeCreated", "CorruptPackage"}
                 /\ cur'.err = "TargetDirectoryCouldNotBeCreated"
                    => /\ NodeOrNone(fs', rec.asset) = NodeOrNone(fs, rec.asset)
                       /\ NodeOrNone(fs', rec.meta) = NodeOrNone(fs, rec.meta)
                       /\ ~Exists(fs', to)
                       /\ ~Exists(fs', meta_to)
                 /\ ~payload_moved
                    => /\ cur'.err # "Ok"
                       /\ NodeOrNone(fs', rec.asset) = NodeOrNone(fs, rec.asset)
                       /\ NodeOrNone(fs', rec.meta) = NodeOrNone(fs, rec.meta)
                       /\ FilesOf(fs') = FilesOf(fs)
                 /\ payload_moved
                    => /\ IsDir(fs', Parent(to).v)
                       /\ NodeOrNone(fs', to) = Some(File(Payload(rec.guid)))
                 /\ meta_moved
                    => /\ payload_moved
                       /\ NodeOrNone(fs', meta_to) = Some(File(MetaText(rec.guid, FALSE)))
                       /\ cur'.err = "Ok"]_vars

\* copy_asset has failed to move the payload, a directory being in its
\* place, and the payload and the meta file are in the tmp directory.
C14_Witness ==
    /\ cur.op = "copy_asset" /\ cur.err = "CorruptPackage"
    /\ IsDir(fs, AbsoluteTargetPath(cur.rec.v, cur.path))
    /\ IsFile(fs, cur.rec.v.asset)
    /\ IsFile(fs, cur.rec.v.meta)
    /\ ~Exists(fs, MetaTargetFileName(AbsoluteTargetPath(cur.rec.v, cur.path)).v)

\* copy_asset has failed to create the parent directory, a file being in
\* the way, and the payload and the meta file are in the tmp directory.
C14_ParentFailed ==
    /\ cur.op = "copy_asset" /\ cur.err = "TargetDirectoryCouldNotBeCreated"
    /\ IsFile(fs, cur.rec.v.asset)
    /\ IsFile(fs, cur.rec.v.meta)
    /\ ~Exists(fs, AbsoluteTargetPath(cur.rec.v, cur.path))

====
